---------------------------- MODULE Spec2Model ----------------------------
(***************************************************************************)
(* A model of ansible_sphinx.py: the cross-reference registry of the       *)
(* "ansible" domain, the directives that render the output of ansible-doc, *)
(* and the scaffolding functions generate_roles / generate_modules.        *)
(*                                                                         *)
(* Strings of the program are TLA+ strings; the string operations the      *)
(* program uses (replace, split, join, slicing, concatenation) are         *)
(* computed character by character.                                        *)
(***************************************************************************)
EXTENDS Naturals, Sequences, FiniteSets, TLC

VARIABLES
    \* the registry: env.domaindata['ansible']['objects'] and what a
    \* registration appends to the signature node and to the index node
    objects,      \* target_name -> docname
    ids,          \* set of <<docname, target_name>>: signode['ids'] of a document
    entries,      \* number of index entries appended
    nregs,        \* number of add_target_and_index calls so far
    firstDoc,     \* history: <<directive name, name>> -> docname of its first registration
    firstReg,     \* history: <<object type, name>> -> docname of its first registration
    lastDoc,      \* history: <<directive name, name>> -> docname of its latest registration
    resolved,     \* what the last resolve_xref call returned
    \* parallel workers registering into the same registry
    wstate,       \* worker -> its position inside add_target_and_index
    writes,       \* history: target_name -> number of stores into objects
    firstWrite,   \* history: target_name -> docname of the first store
    \* scaffolding
    tree,         \* the collection on disk: roles, plugins/modules, galaxy.yml
    files,        \* the docs directory: path -> content
    written,      \* history: the paths written since tree last changed
    snapshot,     \* history: files after the first generate since tree changed
    gens,         \* history: generate runs since tree changed (capped)
    \* rendering
    cli,          \* what ansible-doc -j answers for the plugin
    stack,        \* the directives being run, innermost last
    result,       \* what the outermost directive's run returned or raised
    invocations,  \* history: number of ansible-doc invocations
    maxCalls      \* history: most invocations made by one finished directive instance

regVars == <<objects, ids, entries, nregs, firstDoc, firstReg, lastDoc, resolved>>
parVars == <<wstate, writes, firstWrite>>
genVars == <<tree, files, written, snapshot, gens>>
renVars == <<cli, stack, result, invocations, maxCalls>>
vars == <<regVars, parVars, genVars, renVars>>

None == [t |-> "none"]

\* no directive has returned or raised yet
NoResult == [status |-> "none", error |-> "", cls |-> "", lines |-> <<>>, sections |-> <<>>]

----------------------------------------------------------------------------
(* String helpers.                                                         *)

RECURSIVE Replace(_, _, _)
\* str.replace(old, new) for a one-character old
Replace(s, old, new) ==
    IF Len(s) = 0 THEN ""
    ELSE (IF SubSeq(s, 1, 1) = old THEN new ELSE SubSeq(s, 1, 1))
             \o Replace(SubSeq(s, 2, Len(s)), old, new)

RECURSIVE SplitFrom(_, _, _)
SplitFrom(s, sep, cur) ==
    IF Len(s) = 0 THEN <<cur>>
    ELSE IF SubSeq(s, 1, 1) = sep
         THEN <<cur>> \o SplitFrom(SubSeq(s, 2, Len(s)), sep, "")
         ELSE SplitFrom(SubSeq(s, 2, Len(s)), sep, cur \o SubSeq(s, 1, 1))

\* str.split(sep) for a one-character sep
Split(s, sep) == SplitFrom(s, sep, "")

RECURSIVE Join(_, _)
\* sep.join(parts)
Join(sep, parts) ==
    IF Len(parts) = 0 THEN ""
    ELSE IF Len(parts) = 1 THEN parts[1]
    ELSE parts[1] \o sep \o Join(sep, Tail(parts))

----------------------------------------------------------------------------
(* The domain and its registry.                                            *)

DomainName == "ansible"

\* AnsibleDomain.directives
DirectiveTypes == {"plugin", "return", "returns", "option", "options", "examples"}

\* AnsibleDomain.roles
RoleTypes == {"plugin", "options", "option", "return", "returns", "examples"}

\* self.name of a directive is the name it was invoked by in the document:
\* "ansible:plugin", or "plugin" where ansible is the document's default
\* domain (the host splits self.name at ':' and takes an empty domain when
\* there is none).
DirectiveNames ==
    {DomainName \o ":" \o t : t \in DirectiveTypes} \cup DirectiveTypes

\* the object type of a directive name, as the host derives it
ObjTypeOf(dname) == LET p == Split(dname, ":") IN p[Len(p)]

MaxRegs == 2

Names == {"foo.bar.mod", "foo.bar.mod.state"}
Docs == {"modules/mod", "index"}

\* line 32
TargetName(dname, name) == Replace(dname, ":", ".") \o "." \o name

\* lines 33-34, with the store of line 34 unconditional
RegisterLastWins(objs, dname, name, docname) ==
    LET target_name == TargetName(dname, name) IN
    [k \in DOMAIN objs \cup {target_name} |->
        IF k = target_name THEN docname ELSE objs[k]]

\* lines 33-34: the registry after add_target_and_index
Register(objs, dname, name, docname) ==
    LET target_name == TargetName(dname, name) IN
    IF target_name \notin DOMAIN objs
    THEN [k \in DOMAIN objs \cup {target_name} |->
             IF k = target_name THEN docname ELSE objs[k]]
    ELSE objs

\* lines 33, 35: the ids of the documents' signature nodes
RegisterIds(objs, idset, dname, name, docname) ==
    LET target_name == TargetName(dname, name) IN
    IF target_name \notin DOMAIN objs
    THEN idset \cup {<<docname, target_name>>}
    ELSE idset

Extend(f, k, v) ==
    IF k \in DOMAIN f THEN f ELSE [x \in DOMAIN f \cup {k} |-> IF x = k THEN v ELSE f[x]]

\* the host reads every document before it resolves the references
AddTargetAndIndex(dname, name, docname) ==
    /\ nregs < MaxRegs
    /\ resolved = None
    /\ objects' = Register(objects, dname, name, docname)
    /\ ids' = RegisterIds(objects, ids, dname, name, docname)
    /\ entries' = entries + 1
    /\ nregs' = nregs + 1
    /\ firstDoc' = Extend(firstDoc, <<dname, name>>, docname)
    /\ firstReg' = Extend(firstReg, <<ObjTypeOf(dname), name>>, docname)
    /\ lastDoc' = [p \in DOMAIN lastDoc \cup {<<dname, name>>} |->
                      IF p = <<dname, name>> THEN docname ELSE lastDoc[p]]
    /\ UNCHANGED <<resolved, parVars, genVars, renVars>>

\* the key resolution looks up: line 231
XrefTargetName(typ, target) == "ansible." \o typ \o "." \o target

\* lines 231-235; make_refnode points at (document, anchor); None otherwise
ResolveXrefResult(objs, typ, target) ==
    LET target_name == XrefTargetName(typ, target) IN
    IF target_name \in DOMAIN objs
    THEN [t |-> "ref", docname |-> objs[target_name], refid |-> target_name]
    ELSE None

ResolveXref(typ, target) ==
    /\ resolved' = [typ |-> typ, target |-> target,
                    node |-> ResolveXrefResult(objects, typ, target)]
    /\ UNCHANGED <<objects, ids, entries, nregs, firstDoc, firstReg, lastDoc>>
    /\ UNCHANGED <<parVars, genVars, renVars>>

EmptyMap == [x \in {} |-> None]

RegInit ==
    /\ objects = EmptyMap      \* initial_data, lines 223-225
    /\ ids = {}
    /\ entries = 0
    /\ nregs = 0
    /\ firstDoc = EmptyMap
    /\ firstReg = EmptyMap
    /\ lastDoc = EmptyMap
    /\ resolved = None

----------------------------------------------------------------------------
(* Documents read by parallel workers.  setup() declares the extension     *)
(* parallel_read_safe and parallel_write_safe; add_target_and_index takes  *)
(* no lock, so between the membership test of line 33 and the store of     *)
(* line 34 another worker may run.                                         *)

Workers == {"w1", "w2"}

\* each worker reads its own documents
WorkerDoc(w) == IF w = "w1" THEN "modules/mod" ELSE "index"

ParDirectiveNames == {"ansible:plugin", "ansible:options"}

MaxParRegs == 2

Idle(n) == [pc |-> "idle", dname |-> "", name |-> "", done |-> n]

\* a worker's directive reaches add_target_and_index(name, ...)
ParBegin(w, dname, name) ==
    /\ wstate[w].pc = "idle"
    /\ wstate[w].done < MaxParRegs
    /\ wstate' = [wstate EXCEPT ![w] =
                    [pc |-> "check", dname |-> dname, name |-> name, done |-> @.done]]
    /\ UNCHANGED <<regVars, writes, firstWrite, genVars, renVars>>

\* line 33: the membership test
ParCheck(w) ==
    /\ wstate[w].pc = "check"
    /\ wstate' = [wstate EXCEPT ![w].pc =
                    IF TargetName(wstate[w].dname, wstate[w].name) \notin DOMAIN objects
                    THEN "store" ELSE "index"]
    /\ UNCHANGED <<regVars, writes, firstWrite, genVars, renVars>>

\* lines 34-35: the store the test allowed
ParStore(w) ==
    LET target_name == TargetName(wstate[w].dname, wstate[w].name) IN
    /\ wstate[w].pc = "store"
    /\ objects' = [k \in DOMAIN objects \cup {target_name} |->
                     IF k = target_name THEN WorkerDoc(w) ELSE objects[k]]
    /\ ids' = ids \cup {<<WorkerDoc(w), target_name>>}
    /\ writes' = [k \in DOMAIN writes \cup {target_name} |->
                     IF k = target_name
                     THEN (IF k \in DOMAIN writes THEN writes[k] + 1 ELSE 1)
                     ELSE writes[k]]
    /\ firstWrite' = Extend(firstWrite, target_name, WorkerDoc(w))
    /\ wstate' = [wstate EXCEPT ![w].pc = "index"]
    /\ UNCHANGED <<entries, nregs, firstDoc, firstReg, lastDoc, resolved, genVars, renVars>>

\* lines 37-39: the index entry
ParIndex(w) ==
    /\ wstate[w].pc = "index"
    /\ entries' = entries + 1
    /\ wstate' = [wstate EXCEPT ![w] = Idle(@.done + 1)]
    /\ UNCHANGED <<objects, ids, nregs, firstDoc, firstReg, lastDoc, resolved>>
    /\ UNCHANGED <<writes, firstWrite, genVars, renVars>>

ParInit ==
    /\ wstate = [w \in Workers |-> Idle(0)]
    /\ writes = EmptyMap
    /\ firstWrite = EmptyMap

----------------------------------------------------------------------------
(* Scaffolding: generate_roles, generate_modules, generate.                *)
(* The collection has its roles/ and plugins/modules/ directories and its  *)
(* galaxy.yml; the docs directory exists.  A directory listing is the      *)
(* sequence iterdir() yields, in the order it yields it.                   *)

MaxEntries == 2

File(data) == [t |-> "file", data |-> data]

RoleNames == {"web", "db"}
Readmes == {None, File("# v1\n"), File("# v2\n")}
ModuleFiles == {"__init__.py", "ping.py", "index.py"}

\* the sequences of at most n distinct elements of S
RECURSIVE Listings(_, _)
Listings(S, n) ==
    IF n = 0 THEN {<<>>}
    ELSE LET shorter == Listings(S, n - 1) IN
         shorter \cup {Append(l, x) : l \in shorter, x \in S}

Distinct(l) == \A i, j \in 1..Len(l) : i # j => l[i] # l[j]

RoleListings ==
    LET NameLists == {l \in Listings(RoleNames, MaxEntries) : Distinct(l)} IN
    UNION {{[i \in 1..Len(l) |-> [name |-> l[i], readme |-> r[i]]] :
              r \in [1..Len(l) -> Readmes]} : l \in NameLists}

ModuleListings == {l \in Listings(ModuleFiles, MaxEntries) : Distinct(l)}

Galaxy == [namespace |-> "foo", name |-> "bar"]

\* lines 247-250
collection_prefix(t) == Join(".", <<t.galaxy.namespace, t.galaxy.name>>)

\* a write of the whole file: open('w'), open('w+'), shutil.copyfile
WriteFile(io, path, data) ==
    [files |-> [p \in DOMAIN io.files \cup {path} |->
                   IF p = path THEN data ELSE io.files[p]],
     written |-> io.written \cup {path}]

\* a write that keeps what the file held, as open('a') would
AppendFile(io, path, data) ==
    [files |-> [p \in DOMAIN io.files \cup {path} |->
                   IF p = path
                   THEN (IF p \in DOMAIN io.files THEN io.files[p] ELSE "") \o data
                   ELSE io.files[p]],
     written |-> io.written \cup {path}]

RECURSIVE WriteEntries(_, _)
\* lines 279-280 and 320-321: f.write('\n   ' + name) for each name
WriteEntries(text, names) ==
    IF names = <<>> THEN text
    ELSE WriteEntries(text \o "\n   " \o Head(names), Tail(names))

\* the index written by appending to the file instead of truncating it
AppendIndex(io, path, header, names) ==
    AppendFile(io, path, WriteEntries(header, names))

\* lines 277-280 and 318-321
WriteIndex(io, path, header, names) ==
    WriteFile(io, path, WriteEntries(header, names))

\* lines 267-275
RolesHeader ==
    "Role documentation\n==================\n\n.. _Roles_list:\n\n.. toctree::\n   :maxdepth: 1\n   :caption: Roles:\n"

\* lines 308-316
ModulesHeader ==
    "Module documentation\n====================\n\n.. _modules_list:\n\n.. toctree::\n   :maxdepth: 1\n   :caption: modules:\n"

RECURSIVE RolesLoopNoSkip(_, _, _)
\* the loop without the README test of lines 261-262
RolesLoopNoSkip(listing, role_names, io) ==
    IF listing = <<>> THEN [role_names |-> role_names, io |-> io]
    ELSE LET role_path == Head(listing) IN
         RolesLoopNoSkip(Tail(listing), Append(role_names, role_path.name),
             IF role_path.readme = None THEN io
             ELSE WriteFile(io, "roles/" \o role_path.name \o ".md", role_path.readme.data))

RECURSIVE RolesLoop(_, _, _)
\* lines 259-265
RolesLoop(listing, role_names, io) ==
    IF listing = <<>> THEN [role_names |-> role_names, io |-> io]
    ELSE LET role_path == Head(listing) IN
         IF role_path.readme = None
         THEN RolesLoop(Tail(listing), role_names, io)
         ELSE RolesLoop(Tail(listing), Append(role_names, role_path.name),
                  WriteFile(io, "roles/" \o role_path.name \o ".md", role_path.readme.data))

\* lines 253-280
generate_roles(t, io) ==
    LET r == RolesLoop(t.roles, <<>>, io) IN
    WriteIndex(r.io, "roles/index.rst", RolesHeader, r.role_names)

\* lines 299-306: the stub, after textwrap.dedent
StubText(prefix, module_name) ==
    "\n" \o prefix \o "." \o module_name \o "\n===========================\n\n"
         \o ".. ansible:plugin:: " \o prefix \o "." \o module_name \o "\n"

RECURSIVE ModulesLoop(_, _, _, _)
\* lines 291-306
ModulesLoop(listing, prefix, module_names, io) ==
    IF listing = <<>> THEN [module_names |-> module_names, io |-> io]
    ELSE LET name == Head(listing) IN
         IF name = "__init__.py"
         THEN ModulesLoop(Tail(listing), prefix, module_names, io)
         ELSE LET module_name == SubSeq(name, 1, Len(name) - 3) IN
              ModulesLoop(Tail(listing), prefix, Append(module_names, module_name),
                  WriteFile(io, "modules/" \o module_name \o ".rst",
                            StubText(prefix, module_name)))

\* lines 283-321
generate_modules(t, io) ==
    LET m == ModulesLoop(t.modules, collection_prefix(t), <<>>, io) IN
    WriteIndex(m.io, "modules/index.rst", ModulesHeader, m.module_names)

\* lines 324-326
generate(t, io) == generate_modules(t, generate_roles(t, io))

Io == [files |-> files, written |-> written]

GenerateRoles ==
    LET io == generate_roles(tree, Io) IN
    /\ files' = io.files
    /\ written' = io.written
    /\ UNCHANGED <<tree, snapshot, gens, regVars, parVars, renVars>>

GenerateModules ==
    LET io == generate_modules(tree, Io) IN
    /\ files' = io.files
    /\ written' = io.written
    /\ UNCHANGED <<tree, snapshot, gens, regVars, parVars, renVars>>

Generate ==
    LET io == generate(tree, Io) IN
    /\ files' = io.files
    /\ written' = io.written
    /\ snapshot' = IF gens = 0 THEN io.files ELSE snapshot
    /\ gens' = IF gens < 2 THEN gens + 1 ELSE gens
    /\ UNCHANGED <<tree, regVars, parVars, renVars>>

\* the collection is edited between runs
ChangeRoles(listing) ==
    /\ listing # tree.roles
    /\ tree' = [tree EXCEPT !.roles = listing]
    /\ written' = {}
    /\ snapshot' = EmptyMap
    /\ gens' = 0
    /\ UNCHANGED <<files, regVars, parVars, renVars>>

ChangeModules(listing) ==
    /\ listing # tree.modules
    /\ tree' = [tree EXCEPT !.modules = listing]
    /\ written' = {}
    /\ snapshot' = EmptyMap
    /\ gens' = 0
    /\ UNCHANGED <<files, regVars, parVars, renVars>>

GenInit ==
    /\ tree \in [roles : RoleListings, modules : ModuleListings, galaxy : {Galaxy}]
    /\ files = EmptyMap
    /\ written = {}
    /\ snapshot = EmptyMap
    /\ gens = 0

RenIdle ==
    /\ cli = None
    /\ stack = <<>>
    /\ result = NoResult
    /\ invocations = 0
    /\ maxCalls = 0

GenIdle ==
    /\ tree = [roles |-> <<>>, modules |-> <<>>, galaxy |-> Galaxy]
    /\ files = EmptyMap
    /\ written = {}
    /\ snapshot = EmptyMap
    /\ gens = 0

SpecGenInit == RegInit /\ ParInit /\ GenInit /\ RenIdle

SpecGenNext ==
    \/ GenerateRoles
    \/ GenerateModules
    \/ Generate
    \/ \E listing \in RoleListings : ChangeRoles(listing)
    \/ \E listing \in ModuleListings : ChangeModules(listing)

SpecGen == SpecGenInit /\ [][SpecGenNext]_vars

----------------------------------------------------------------------------
(* JSON values, as json.loads returns them.  A dict keeps its keys in the  *)
(* order of the document: a sequence of [k, v] pairs with distinct keys.   *)

JNull == [t |-> "null", v |-> <<>>]
JFalse == [t |-> "bool", v |-> FALSE]
JStr(s) == [t |-> "str", v |-> s]
JList(items) == [t |-> "list", v |-> items]
JDict(pairs) == [t |-> "dict", v |-> pairs]
Pair(k, v) == [k |-> k, v |-> v]
Unset == [t |-> "unset", v |-> <<>>]

\* k in d
Has(d, k) == \E i \in 1..Len(d.v) : d.v[i].k = k

\* d.get(k, default)
Get(d, k, default) ==
    IF Has(d, k) THEN d.v[CHOOSE i \in 1..Len(d.v) : d.v[i].k = k].v ELSE default

\* d without k: what is left after d.pop(k)
Without(d, k) == JDict(SelectSeq(d.v, LAMBDA it : it.k # k))

\* bool(x)
Truthy(x) ==
    CASE x.t = "null" -> FALSE
      [] x.t = "bool" -> x.v
      [] x.t = "str" -> Len(x.v) > 0
      [] OTHER -> Len(x.v) > 0

AllStr(items) == \A i \in 1..Len(items) : items[i].t = "str"

\* the strings of a list of str values
Strs(items) == [i \in 1..Len(items) |-> items[i].v]

\* f'{x}' of a value this model formats
Format(x) ==
    CASE x.t = "str" -> x.v
      [] x.t = "null" -> "None"
      [] x.t = "bool" -> IF x.v THEN "True" ELSE "False"
      [] OTHER -> "<" \o x.t \o ">"

----------------------------------------------------------------------------
(* What ansible-doc -j answers.                                            *)

PluginId == "foo.bar.mod"

MaxDocKeys == 2

OptionsDict ==
    JDict(<<Pair("state", JDict(<<Pair("description", JList(<<JStr("Desired state."), JStr("Defaults to present.")>>)),
                                  Pair("type", JStr("str"))>>))>>)

DocItems == {
    Pair("module", JStr("mod")),
    Pair("author", JList(<<JStr("ann"), JStr("bob")>>)),
    Pair("examples", JStr("see below")),
    Pair("options", JDict(<<>>)),
    Pair("options", OptionsDict),
    Pair("seealso", JList(<<JDict(<<Pair("module", JStr("foo.bar.other"))>>)>>)) }

DistinctKeys(l) == \A i, j \in 1..Len(l) : i # j => l[i].k # l[j].k

DocValues == {JDict(l) : l \in {x \in Listings(DocItems, MaxDocKeys) : DistinctKeys(x)}}

ExamplesValues == {JNull, JStr("- foo.bar.mod:\n    state: present")}

ReturnValues == {
    JNull,
    JDict(<<Pair("ping", JDict(<<Pair("description", JStr("The reply.")),
                                 Pair("type", JStr("str"))>>))>>),
    JDict(<<Pair("ping", JDict(<<Pair("type", JStr("str"))>>))>>) }

Optional(key, values) == {<<>>} \cup {<<Pair(key, v)>> : v \in values}

\* the value ansible-doc gives under the plugin's name
Descriptors ==
    {JDict(d \o e \o r) : d \in Optional("doc", DocValues),
                          e \in Optional("examples", ExamplesValues),
                          r \in Optional("return", ReturnValues)}

Garbage == [t |-> "garbage", v |-> <<>>]

\* exit status and standard output of the tool
CliOutputs ==
    {[rc |-> 1, out |-> Garbage], [rc |-> 0, out |-> Garbage], [rc |-> 0, out |-> JDict(<<>>)]}
    \cup {[rc |-> 0, out |-> JDict(<<Pair(PluginId, d)>>)] : d \in Descriptors}

----------------------------------------------------------------------------
(* PluginMixin: the cached properties of a directive instance.             *)

Min(a, b) == IF a < b THEN a ELSE b
Max(a, b) == IF a > b THEN a ELSE b

\* line 63: '.'.join(arguments[0].split('.')[:3]).split(' ')[0]
plugin_name(arg) ==
    LET parts == Split(arg, ".") IN
    Split(Join(".", SubSeq(parts, 1, Min(3, Len(parts)))), " ")[1]

\* lines 67 and 122: arguments[0].split('.')[-1]
object_name(arg) == LET parts == Split(arg, ".") IN parts[Len(parts)]

Ok(value) == [err |-> "", value |-> value]
Err(name) == [err |-> name, value |-> Unset]

\* a fetch that answers an empty descriptor where the tool failed
FetchLenient(name) ==
    IF cli.rc # 0 \/ cli.out.t = "garbage" \/ ~Has(cli.out, name)
    THEN Ok(JDict(<<>>))
    ELSE Ok(Get(cli.out, name, JNull))

\* lines 55-59: check_output, json.loads, [plugin_name]
Fetch(name) ==
    IF cli.rc # 0 THEN Err("CalledProcessError")
    ELSE IF cli.out.t = "garbage" THEN Err("JSONDecodeError")
    ELSE IF ~Has(cli.out, name) THEN Err("KeyError")
    ELSE Ok(Get(cli.out, name, JNull))

\* self.json computed at every access
JsonAccessUncached(frame) ==
    LET r == Fetch(plugin_name(frame.arg)) IN
    [frame |-> [frame EXCEPT !.calls = @ + 1,
                             !.json = IF r.err = "" THEN r.value ELSE @],
     err |-> r.err, value |-> r.value]

\* lines 53-59: self.json, a functools.cached_property: computed at the
\* first access, kept on the instance when the computation returns
JsonAccess(frame) ==
    IF frame.json # Unset
    THEN [frame |-> frame, err |-> "", value |-> frame.json]
    ELSE LET r == Fetch(plugin_name(frame.arg)) IN
         [frame |-> [frame EXCEPT !.calls = @ + 1,
                                  !.json = IF r.err = "" THEN r.value ELSE @],
          err |-> r.err, value |-> r.value]

----------------------------------------------------------------------------
(* The directives.  A directive's run is a frame of the stack; the nested  *)
(* parse of rst_nodes runs the directives of its text before it returns,   *)
(* each a new instance, so it pushes a frame.  No run catches anything: an *)
(* exception leaves every frame.                                           *)

DocName == "modules/mod"

NewFrame(cls, arg) ==
    [cls |-> cls, arg |-> arg, pc |-> "run", json |-> Unset, calls |-> 0,
     lines |-> <<>>, sections |-> <<>>, todo |-> <<>>]

Top == stack[Len(stack)]

SetTop(frame) == [stack EXCEPT ![Len(stack)] = frame]

RECURSIVE MaxCallsOf(_)
MaxCallsOf(frames) ==
    IF frames = <<>> THEN 0 ELSE Max(Head(frames).calls, MaxCallsOf(Tail(frames)))

\* an exception raised in the innermost frame, now `frame`
Raise(frame, err) ==
    /\ result' = [status |-> "raised", error |-> err, cls |-> stack[1].cls,
                  lines |-> <<>>, sections |-> <<>>]
    /\ maxCalls' = Max(maxCalls, MaxCallsOf(SetTop(frame)))
    /\ stack' = <<>>

\* the frame goes on
Continue(frame) ==
    /\ stack' = SetTop(frame)
    /\ UNCHANGED <<result, maxCalls>>

\* the frame goes on after starting the directive of a nested parse
Nest(frame, cls, arg) ==
    /\ stack' = Append(SetTop(frame), NewFrame(cls, arg))
    /\ UNCHANGED <<result, maxCalls>>

Counted(frame) == invocations' = invocations + (frame.calls - Top.calls)

regRest == <<nregs, firstDoc, firstReg, lastDoc, resolved>>

\* a document reaches a directive of the domain
StartDirective(cls, arg) ==
    /\ stack = <<>>
    /\ result = NoResult
    /\ stack' = <<NewFrame(cls, arg)>>
    /\ UNCHANGED <<cli, result, invocations, maxCalls, regVars, parVars, genVars>>

\* super().run(): the host's ObjectDescription.run calls handle_signature
\* (lines 41-49, 115-116, 139-142, 184-185: the name is sig.strip()) and
\* add_target_and_index(name, sig, signode)
SuperRun ==
    LET dname == DomainName \o ":" \o Top.cls IN
    /\ stack # <<>>
    /\ Top.pc = "run"
    /\ objects' = Register(objects, dname, Top.arg, DocName)
    /\ ids' = RegisterIds(objects, ids, dname, Top.arg, DocName)
    /\ entries' = entries + 1
    /\ Continue([Top EXCEPT !.pc = IF Top.cls = "plugin" THEN "fields" ELSE "body"])
    /\ UNCHANGED <<cli, invocations, regRest, parVars, genVars>>

RECURSIVE FieldsLoopAll(_, _)
\* the loop of lines 74-81 without the isinstance(value, dict) test
FieldsLoopAll(items, rst) ==
    IF items = <<>> THEN [err |-> "", rst |-> rst]
    ELSE LET key == Head(items).k
             value == Head(items).v IN
         IF key = "examples" THEN FieldsLoopAll(Tail(items), rst)
         ELSE IF value.t = "list"
         THEN IF AllStr(value.v)
              THEN FieldsLoopAll(Tail(items),
                       Append(rst, "- **" \o key \o "**: " \o Join(", ", Strs(value.v))))
              ELSE [err |-> "TypeError", rst |-> <<>>]
         ELSE FieldsLoopAll(Tail(items), Append(rst, "- **" \o key \o "**: " \o Format(value)))

RECURSIVE FieldsLoop(_, _)
\* lines 74-81
FieldsLoop(items, rst) ==
    IF items = <<>> THEN [err |-> "", rst |-> rst]
    ELSE LET key == Head(items).k
             value == Head(items).v IN
         IF key = "examples" THEN FieldsLoop(Tail(items), rst)
         ELSE IF value.t = "dict" THEN FieldsLoop(Tail(items), rst)
         ELSE IF value.t = "list"
         THEN IF AllStr(value.v)
              THEN FieldsLoop(Tail(items),
                       Append(rst, "- **" \o key \o "**: " \o Join(", ", Strs(value.v))))
              ELSE [err |-> "TypeError", rst |-> <<>>]
         ELSE FieldsLoop(Tail(items), Append(rst, "- **" \o key \o "**: " \o Format(value)))

\* AnsiblePluginDirective.run, lines 73-82
PluginFields ==
    /\ stack # <<>>
    /\ Top.cls = "plugin" /\ Top.pc = "fields"
    /\ LET a == JsonAccess(Top) IN
       /\ Counted(a.frame)
       /\ IF a.err # "" THEN Raise(a.frame, a.err)
          ELSE LET r == FieldsLoop(Get(a.value, "doc", JDict(<<>>)).v, <<>>) IN
               IF r.err # "" THEN Raise(a.frame, r.err)
               ELSE Continue([a.frame EXCEPT !.lines = r.rst, !.pc = "options"])
    /\ UNCHANGED <<cli, regVars, parVars, genVars>>

\* the test of line 91
WantsOptions(json) == Truthy(Get(Get(json, "doc", JDict(<<>>)), "options", JFalse))

\* the test of line 96
WantsExamples(json) == Has(json, "examples")

\* the test of line 101
WantsReturn(json) == Has(json, "return")

\* the tests of lines 91, 96 and 101, by the block they guard
Wants(pc, json) ==
    IF pc = "options" THEN WantsOptions(json)
    ELSE IF pc = "examples" THEN WantsExamples(json)
    ELSE WantsReturn(json)

\* one of the three section blocks of lines 91-104, up to its nested parse
PluginSection(pc, cls, next) ==
    /\ stack # <<>>
    /\ Top.cls = "plugin" /\ Top.pc = pc
    /\ LET a == JsonAccess(Top) IN
       /\ Counted(a.frame)
       /\ IF a.err # "" THEN Raise(a.frame, a.err)
          ELSE IF Wants(pc, a.value)
          THEN Nest([a.frame EXCEPT !.pc = pc \o "_nested"], cls, Top.arg)
          ELSE Continue([a.frame EXCEPT !.pc = next])
    /\ UNCHANGED <<cli, regVars, parVars, genVars>>

\* lines 91-93
PluginOptions == PluginSection("options", "options", "examples")

\* lines 96-98
PluginExamples == PluginSection("examples", "examples", "return")

\* lines 101-103
PluginReturn == PluginSection("return", "returns", "done")

\* self.object of the two listing directives: lines 150 and 164
ObjectsObject(cls, json) ==
    IF cls = "options"
    THEN Get(Get(json, "doc", JDict(<<>>)), "options", JDict(<<>>))
    ELSE Get(json, "return", JNull)

\* AnsiblePluginObjectsDirective.run, line 111: self.object.keys()
ObjectsBody ==
    /\ stack # <<>>
    /\ Top.cls \in {"options", "returns"} /\ Top.pc = "body"
    /\ LET a == JsonAccess(Top) IN
       /\ Counted(a.frame)
       /\ IF a.err # "" THEN Raise(a.frame, a.err)
          ELSE LET object == ObjectsObject(Top.cls, a.value) IN
               IF object.t # "dict" THEN Raise(a.frame, "AttributeError")
               ELSE Continue([a.frame EXCEPT
                        !.todo = [i \in 1..Len(object.v) |-> object.v[i].k],
                        !.pc = "loop"])
    /\ UNCHANGED <<cli, regVars, parVars, genVars>>

\* typ of the two listing directives: lines 146 and 160
Typ(cls) == IF cls = "options" THEN "option" ELSE "return"

\* lines 111-113: the next name of the loop, or the return
ObjectsLoop ==
    /\ stack # <<>>
    /\ Top.cls \in {"options", "returns"} /\ Top.pc = "loop"
    /\ IF Top.todo = <<>>
       THEN Continue([Top EXCEPT !.pc = "done"])
       ELSE Nest([Top EXCEPT !.todo = Tail(@), !.pc = "loop_nested"],
                 Typ(Top.cls), plugin_name(Top.arg) \o "." \o Head(Top.todo))
    /\ UNCHANGED <<cli, invocations, regVars, parVars, genVars>>

\* self.object of the two entry directives: lines 156 and 170
ObjectObject(cls, arg, json) ==
    LET holder == IF cls = "option"
                  THEN Get(Get(json, "doc", JDict(<<>>)), "options", JDict(<<>>))
                  ELSE Get(json, "return", JDict(<<>>)) IN
    IF holder.t # "dict" THEN Err("AttributeError")
    ELSE Ok(Get(holder, object_name(arg), JNull))

RECURSIVE DataLines(_, _)
\* lines 132-135
DataLines(items, rst) ==
    IF items = <<>> THEN [err |-> "", rst |-> rst]
    ELSE LET name == Head(items).k
             data == Head(items).v IN
         IF data.t = "list"
         THEN IF AllStr(data.v)
              THEN DataLines(Tail(items),
                       Append(rst, "- **" \o name \o "**: " \o Join(" ", Strs(data.v))))
              ELSE [err |-> "TypeError", rst |-> <<>>]
         ELSE DataLines(Tail(items), Append(rst, "- **" \o name \o "**: " \o Format(data)))

\* lines 126-136, for self.object = object
ObjectRender(object) ==
    IF object.t # "dict" THEN [err |-> "AttributeError", rst |-> <<>>]
    ELSE IF ~Has(object, "description") THEN [err |-> "KeyError", rst |-> <<>>]
    ELSE LET description == Get(object, "description", JNull)
             data == Without(object, "description")
             rest == DataLines(data.v, <<>>) IN
         IF description.t = "list" /\ Truthy(description) /\ ~AllStr(description.v)
         THEN [err |-> "TypeError", rst |-> <<>>]
         ELSE IF rest.err # "" THEN rest
         ELSE [err |-> "",
               rst |-> (IF ~Truthy(description) THEN <<>>
                        ELSE IF description.t = "list"
                        THEN <<"\n" \o Join("\n\n", Strs(description.v))>>
                        ELSE <<"\n" \o Format(description)>>) \o rest.rst]

\* AnsiblePluginObjectDirective.run, lines 124-137
ObjectBody ==
    /\ stack # <<>>
    /\ Top.cls \in {"option", "return"} /\ Top.pc = "body"
    /\ LET a == JsonAccess(Top) IN
       /\ Counted(a.frame)
       /\ IF a.err # "" THEN Raise(a.frame, a.err)
          ELSE LET o == ObjectObject(Top.cls, Top.arg, a.value) IN
               IF o.err # "" THEN Raise(a.frame, o.err)
               ELSE LET r == ObjectRender(o.value) IN
                    IF r.err # "" THEN Raise(a.frame, r.err)
                    ELSE Continue([a.frame EXCEPT !.lines = r.rst, !.pc = "done"])
    /\ UNCHANGED <<cli, regVars, parVars, genVars>>

\* AnsiblePluginExamplesDirective: lines 176 and 179-182
ExamplesBody ==
    /\ stack # <<>>
    /\ Top.cls = "examples" /\ Top.pc = "body"
    /\ LET a == JsonAccess(Top) IN
       /\ Counted(a.frame)
       /\ IF a.err # "" THEN Raise(a.frame, a.err)
          ELSE LET object == Get(a.value, "examples", JFalse) IN
               IF object.t # "str" THEN Raise(a.frame, "AttributeError")
               ELSE LET wrapped == Join("\n  ", Split(object.v, "\n")) IN
                    Continue([a.frame EXCEPT
                        !.lines = <<".. code:: yaml\n" \o wrapped \o "\n">>,
                        !.pc = "done"])
    /\ UNCHANGED <<cli, regVars, parVars, genVars>>

\* the section title of lines 92, 97 and 102
SectionName(pc) ==
    IF pc = "options_nested" THEN "Options"
    ELSE IF pc = "examples_nested" THEN "Examples"
    ELSE "Return"

NextBlock(pc) ==
    IF pc = "options_nested" THEN "examples"
    ELSE IF pc = "examples_nested" THEN "return"
    ELSE "done"

\* the caller's frame once the nested parse has returned: the section is
\* appended to nodes (lines 94, 99, 104), or the loop of line 111 goes on
Resume(parent) ==
    IF parent.cls = "plugin"
    THEN [parent EXCEPT !.sections = Append(@, SectionName(parent.pc)),
                        !.pc = NextBlock(parent.pc)]
    ELSE [parent EXCEPT !.pc = "loop"]

\* return nodes: lines 105, 113, 137, 182
Return ==
    /\ stack # <<>>
    /\ Top.pc = "done"
    /\ maxCalls' = Max(maxCalls, Top.calls)
    /\ IF Len(stack) = 1
       THEN /\ result' = [status |-> "returned", error |-> "", cls |-> Top.cls,
                          lines |-> Top.lines, sections |-> Top.sections]
            /\ stack' = <<>>
       ELSE /\ stack' = [SubSeq(stack, 1, Len(stack) - 1) EXCEPT
                            ![Len(stack) - 1] = Resume(stack[Len(stack) - 1])]
            /\ UNCHANGED result
    /\ UNCHANGED <<cli, invocations, regVars, parVars, genVars>>

\* the directives a document can hold, with their argument
Directives ==
    {<<c, PluginId>> : c \in {"plugin", "options", "returns", "examples"}}
    \cup {<<c, PluginId \o "." \o n>> : c \in {"option", "return"}, n \in {"state", "ping"}}

RenInit ==
    /\ cli \in CliOutputs
    /\ stack = <<>>
    /\ result = NoResult
    /\ invocations = 0
    /\ maxCalls = 0

SpecRenderInit == RegInit /\ ParInit /\ GenIdle /\ RenInit

SpecRenderNext ==
    \/ \E d \in Directives : StartDirective(d[1], d[2])
    \/ SuperRun
    \/ PluginFields
    \/ PluginOptions
    \/ PluginExamples
    \/ PluginReturn
    \/ ObjectsBody
    \/ ObjectsLoop
    \/ ObjectBody
    \/ ExamplesBody
    \/ Return

SpecRender == SpecRenderInit /\ [][SpecRenderNext]_vars

----------------------------------------------------------------------------
(* The registry alone, and the registry under parallel workers.            *)

SpecRegInit == RegInit /\ ParInit /\ GenIdle /\ RenIdle

SpecRegNext ==
    \/ \E dname \in DirectiveNames, name \in Names, docname \in Docs :
           AddTargetAndIndex(dname, name, docname)
    \/ \E typ \in RoleTypes, target \in Names : ResolveXref(typ, target)

SpecReg == SpecRegInit /\ [][SpecRegNext]_vars

SpecParNext ==
    \/ \E w \in Workers, dname \in ParDirectiveNames, name \in Names :
           ParBegin(w, dname, name)
    \/ \E w \in Workers : ParCheck(w)
    \/ \E w \in Workers : ParStore(w)
    \/ \E w \in Workers : ParIndex(w)

SpecPar == SpecRegInit /\ [][SpecParNext]_vars

----------------------------------------------------------------------------
(* Properties of the registry.                                             *)

\* C1: the registry is first-wins. Every (directive name, name) that was
\* registered has its entry, the entry names the document of the first
\* registration whatever was registered later, and distinct names have
\* distinct entries.
C1_FirstWins ==
    /\ \A p \in DOMAIN firstDoc :
           /\ TargetName(p[1], p[2]) \in DOMAIN objects
           /\ objects[TargetName(p[1], p[2])] = firstDoc[p]
    /\ Cardinality(DOMAIN objects) = Cardinality(DOMAIN firstDoc)

\* a name registered again from another document, and a second name
C1_Witness ==
    /\ nregs = MaxRegs
    /\ \E p \in DOMAIN firstDoc :
           /\ lastDoc[p] # firstDoc[p]
           /\ objects[TargetName(p[1], p[2])] = firstDoc[p]

C9_WrittenOnce ==
    \A k \in DOMAIN objects : writes[k] = 1 /\ objects[k] = firstWrite[k]

----------------------------------------------------------------------------
(* Properties of the scaffolding.                                          *)

IndexText(header, names) ==
    header \o (IF names = <<>> THEN "" ELSE "\n   " \o Join("\n   ", names))

RolePage(name) == "roles/" \o name \o ".md"

\* C2: once generate_roles has run on the tree, roles/index.rst lists
\* exactly the roles that have a README.md, in iteration order; each of
\* them has its page, a copy of its README.md; a role without README.md has
\* no page written and no entry.
C2_RolesIndexExact ==
    "roles/index.rst" \in written =>
        LET with == SelectSeq(tree.roles, LAMBDA r : r.readme # None)
            names == [i \in 1..Len(with) |-> with[i].name] IN
        /\ files["roles/index.rst"] = IndexText(RolesHeader, names)
        /\ \A i \in 1..Len(tree.roles) :
               LET r == tree.roles[i] IN
               IF r.readme = None
               THEN RolePage(r.name) \notin written
               ELSE /\ RolePage(r.name) \in written
                    /\ files[RolePage(r.name)] = r.readme.data

\* generate_roles ran on a tree with a role that has a README.md and one
\* that has none, whose page an earlier run on another tree left behind
C2_Witness ==
    /\ "roles/index.rst" \in written
    /\ \E i, j \in 1..Len(tree.roles) :
           /\ tree.roles[i].readme # None
           /\ tree.roles[j].readme = None
           /\ RolePage(tree.roles[j].name) \in DOMAIN files

\* the unit of a module file: its name minus its extension
Unit(filename) == Split(filename, ".")[1]

\* C3: once generate_modules has run on the tree, modules/index.rst lists
\* exactly the module files, in iteration order, and every listed unit has
\* its stub page <unit>.rst naming the directive with
\* <namespace>.<collection>.<unit>; the pages written are those of the
\* listed units and the index.
C3_ModulesIndexExact ==
    "modules/index.rst" \in written =>
        LET mods == SelectSeq(tree.modules, LAMBDA n : n # "__init__.py")
            units == [i \in 1..Len(mods) |-> Unit(mods[i])]
            qualified(u) == tree.galaxy.namespace \o "." \o tree.galaxy.name \o "." \o u IN
        /\ files["modules/index.rst"] = IndexText(ModulesHeader, units)
        /\ \A i \in 1..Len(units) :
               /\ "modules/" \o units[i] \o ".rst" \in written
               /\ files["modules/" \o units[i] \o ".rst"] =
                      "\n" \o qualified(units[i]) \o "\n===========================\n\n"
                           \o ".. ansible:plugin:: " \o qualified(units[i]) \o "\n"
        /\ {p \in written : SubSeq(p, 1, 8) = "modules/"} =
               {"modules/" \o units[i] \o ".rst" : i \in 1..Len(units)}
                   \cup {"modules/index.rst"}

\* C4: after generate has run on the tree, every further run on the
\* unchanged tree leaves every output file as the first run left it.
C4_Idempotent == gens >= 1 => files = snapshot

\* generate ran twice on an unchanged tree with roles and modules, after
\* an earlier run on another tree
C4_Witness ==
    /\ gens = 2
    /\ \E i \in 1..Len(tree.roles) : tree.roles[i].readme # None
    /\ \E i \in 1..Len(tree.modules) : tree.modules[i] # "__init__.py"
    /\ \E p \in DOMAIN files : p \notin written

----------------------------------------------------------------------------
(* Properties of the rendering.                                            *)

\* what the tool's failure raises, "" when the descriptor is there
FetchError ==
    IF cli.rc # 0 THEN "CalledProcessError"
    ELSE IF cli.out.t # "dict" THEN "JSONDecodeError"
    ELSE IF ~Has(cli.out, PluginId) THEN "KeyError"
    ELSE ""

\* the plugin's descriptor in the tool's answer
Desc == Get(cli.out, PluginId, JNull)

Doc == Get(Desc, "doc", JDict(<<>>))

ValueText(x) == IF x.t = "list" THEN Join(", ", Strs(x.v)) ELSE Format(x)

LinesOf(items) ==
    [i \in 1..Len(items) |-> "- **" \o items[i].k \o "**: " \o ValueText(items[i].v)]

PluginReturned == result.status = "returned" /\ result.cls = "plugin"

\* C5 as stated: the fragment has one line per key of doc, in key order,
\* for every key but examples.
C5_LinePerKey ==
    PluginReturned =>
        LET kept == SelectSeq(Doc.v, LAMBDA it : it.k # "examples") IN
        /\ Len(result.lines) = Len(kept)
        /\ \A i \in 1..Len(kept) :
               LET head == "- **" \o kept[i].k \o "**: " IN
               SubSeq(result.lines[i], 1, Len(head)) = head

\* C5, amended: the fragment has one line '- **key**: value' per key of
\* doc, in key order, for every key but examples and the keys whose value
\* is a mapping; a list value is joined with ', '.
C5_LinePerScalarKey ==
    LET expected == LinesOf(SelectSeq(Doc.v,
                        LAMBDA it : it.k # "examples" /\ it.v.t # "dict")) IN
    /\ PluginReturned => result.lines = expected
    /\ \A i \in 1..Len(stack) :
           (stack[i].cls = "plugin" /\ stack[i].pc \notin {"run", "fields"})
               => stack[i].lines = expected

\* the plugin directive returned for a doc with a mapping and a list
C5_Witness ==
    /\ PluginReturned
    /\ \E i \in 1..Len(Doc.v) : Doc.v[i].v.t = "dict"
    /\ \E i \in 1..Len(Doc.v) : Doc.v[i].v.t = "list"
    /\ result.lines = <<"- **author**: ann, bob">>

\* C6 as stated: the tool is invoked once for a plugin identifier.
C6_OncePerPlugin == invocations <= 1

PastFirstAccess(frame) ==
    IF frame.cls = "plugin" THEN frame.pc \notin {"run", "fields"}
    ELSE frame.pc \notin {"run", "body"}

\* C6, amended: a directive instance invokes the tool once, at its first
\* access to the descriptor, and its later accesses return the descriptor
\* it cached, without another invocation.
C6_OncePerInstance ==
    /\ maxCalls <= 1
    /\ \A i \in 1..Len(stack) :
           /\ stack[i].calls <= 1
           /\ PastFirstAccess(stack[i]) => stack[i].calls = 1
           /\ stack[i].json # Unset => stack[i].calls = 1 /\ stack[i].json = Desc
           /\ (stack[i].calls = 1 /\ FetchError = "") => stack[i].json = Desc

\* the plugin directive went through its three section blocks, each
\* reading the descriptor again, and every nested directive fetched anew
C6_Witness ==
    /\ PluginReturned
    /\ result.sections = <<"Options", "Examples", "Return">>
    /\ maxCalls = 1
    /\ invocations > 3

\* C7: where the tool fails, the first access raises the tool's error out
\* of the outermost run: the tool was invoked once, nothing is cached,
\* no run returns and no nodes are returned.
C7_FailedFetchFatal ==
    FetchError # "" =>
        /\ invocations <= 1
        /\ maxCalls <= 1
        /\ \A i \in 1..Len(stack) : stack[i].json = Unset /\ stack[i].calls = 0
        /\ result.status # "returned"
        /\ invocations = 1 =>
               /\ stack = <<>>
               /\ result.status = "raised"
               /\ result.error = FetchError
               /\ result.lines = <<>> /\ result.sections = <<>>

\* a plugin directive's run raised the tool's error, after registering
C7_Witness ==
    /\ FetchError = "CalledProcessError"
    /\ result.status = "raised" /\ result.error = FetchError
    /\ result.cls = "plugin"
    /\ invocations = 1
    /\ objects # EmptyMap

ExpectedSections ==
    (IF Truthy(Get(Doc, "options", JFalse)) THEN <<"Options">> ELSE <<>>)
        \o (IF Has(Desc, "examples") THEN <<"Examples">> ELSE <<>>)
        \o (IF Has(Desc, "return") THEN <<"Return">> ELSE <<>>)

\* the sub-view the section's directive reads has the type it needs
SubViewFits(pc) ==
    IF pc = "options_nested" THEN Get(Doc, "options", JDict(<<>>)).t = "dict"
    ELSE IF pc = "examples_nested" THEN Get(Desc, "examples", JFalse).t = "str"
    ELSE Get(Desc, "return", JNull).t = "dict"

\* C10: the plugin directive returns the sections Options, Examples,
\* Return, in that order, each exactly when its condition holds, and a
\* section whose block is entered is one its directive can render: the
\* sub-view is a mapping for Options and Return, a string for Examples.
C10_SectionsRenderable ==
    /\ PluginReturned => result.sections = ExpectedSections
    /\ \A i \in 1..Len(stack) :
           (stack[i].cls = "plugin" /\
            stack[i].pc \in {"options_nested", "examples_nested", "return_nested"})
               => SubViewFits(stack[i].pc)

============================================================================
